---- MODULE Spec2Model ----
(***************************************************************************)
(* Model of main.py: the Monday.com webhook receiver that copies a parent  *)
(* item's "Creative Deadline" date into its subitems.                      *)
(*                                                                         *)
(* One webhook delivery is followed from the inbound POST to the response. *)
(* The handler is a coroutine: it proceeds atomically between two awaits   *)
(* of a remote call, so every action below is the code between two such    *)
(* awaits.  What the remote API answers is chosen when the answer arrives. *)
(***************************************************************************)
EXTENDS Integers, Sequences, FiniteSets, TLC

\* ------------------------------------------------------------------ bounds
\* Longest subitem list a parent item is returned with.
MaxSubitems == 2
\* Longest column_values list an item is returned with.
MaxCols == 2

\* ------------------------------------------------------- python primitives
\* Python's None, for a string-valued slot (ids, raw column values, types).
None == "<None>"

\* Python truthiness of a string-or-None slot: None and "" are falsy.
Truthy(x) == x # None /\ x # ""

\* `a or b`
Or(a, b) == IF Truthy(a) THEN a ELSE b

SeqUpTo(S, n) == UNION {[1..k -> S] : k \in 0..n}

\* ------------------------------------------------------- inbound payloads
EventTypes == {"create_pulse", "update_column_value", "delete_subitem", None}

\* body["event"] when it is a JSON object.
DictEvents ==
    [shape : {"dict"},
     type : EventTypes,
     pulseId : {None, "p1"},
     pulse_id : {None, "p2"},
     itemId : {None, "p3"},
     boardId : {None, "b9"},
     parentItemId : {None, "par"},
     parentItemBoardId : {None, "pb"}]

\* body without an "event" key ("absent"), or with one that is not an object
\* (null, a string, a list: "notdict").
OtherEvent(shape) ==
    [shape |-> shape, type |-> None, pulseId |-> None, pulse_id |-> None,
     itemId |-> None, boardId |-> None, parentItemId |-> None,
     parentItemBoardId |-> None]

Events == DictEvents \cup {OtherEvent("absent"), OtherEvent("notdict")}

\* A parsed JSON payload: an object (with or without "challenge"), or some
\* other JSON value such as a list.
NoBody == [json |-> "none", challenge |-> None, event |-> OtherEvent("absent")]

Bodies ==
    [json : {"dict"}, challenge : {None, "tok"}, event : Events]
    \cup {[json |-> "list", challenge |-> None, event |-> OtherEvent("absent")]}

\* The request as it arrives: raw bytes that are JSON text of `body`, or not
\* JSON at all.
Requests ==
    [wellFormed : {TRUE}, body : Bodies]
    \cup {[wellFormed |-> FALSE, body |-> NoBody]}

\* -------------------------------------------------------- remote API data
PARENT_DATE_COLUMN_ID == "date7"
SUBITEM_DATE_COLUMN_ID == "date_mkn2am1b"

RawA == "{\"date\":\"2024-05-01\"}"
RawB == "{\"date\":\"2023-12-24\",\"time\":null}"

\* Raw `value` of the parent's date7 column as the API returns it.
DateValues == {None, "", "null", RawA}

\* Entries of parent["subitems"]: id, and board (absent, null or an object
\* with or without id).
SubitemEntries ==
    {[id |-> "s1", board |-> "dict", board_id |-> "b1"],
     [id |-> "s2", board |-> "dict", board_id |-> "b2"],
     [id |-> None, board |-> "dict", board_id |-> "b1"],
     [id |-> "s3", board |-> "dict", board_id |-> None],
     [id |-> "s4", board |-> "absent", board_id |-> None],
     [id |-> "s5", board |-> "null", board_id |-> None]}

\* Answers to the query of process_date_automation (lines 188-203).
NoParentResult ==
    [data |-> "none", found |-> FALSE, column_values |-> <<>>, subitems |-> <<>>]

ParentWithSubitemsResults ==
    [data : {"dict"}, found : {TRUE},
     column_values : SeqUpTo([value : DateValues], 1),
     subitems : SeqUpTo(SubitemEntries, MaxSubitems)]
    \cup {[data |-> "dict", found |-> FALSE, column_values |-> <<>>, subitems |-> <<>>],
          [data |-> "null", found |-> FALSE, column_values |-> <<>>, subitems |-> <<>>]}

\* Columns of an item as returned by GetParentItem / GetSubItem.
NoCol == [id |-> None, type |-> None, value |-> None]

ParentCols ==
    [id : {PARENT_DATE_COLUMN_ID}, type : {"date"}, value : DateValues]
    \cup {[id |-> "date_x", type |-> "date", value |-> RawB],
          [id |-> "text1", type |-> "text", value |-> "\"hello\""]}

SubitemCols ==
    {[id |-> SUBITEM_DATE_COLUMN_ID, type |-> "date", value |-> None],
     [id |-> "date_y", type |-> "date", value |-> None],
     [id |-> "status", type |-> "color", value |-> None]}

NoItemResult == [data |-> "none", found |-> FALSE, column_values |-> <<>>]

ItemResults(cols) ==
    [data : {"dict"}, found : {TRUE}, column_values : SeqUpTo(cols, MaxCols)]
    \cup {[data |-> "dict", found |-> FALSE, column_values |-> <<>>],
          [data |-> "null", found |-> FALSE, column_values |-> <<>>]}

\* HTTP answers of the remote endpoint, as far as execute_monday_query looks
\* at them: a transport failure, the status code, and the "errors" key of the
\* body (absent, an empty list, a non-empty list).
NoResp == [transport |-> FALSE, status_code |-> 0, errors |-> "absent"]
OkResp == [transport |-> FALSE, status_code |-> 200, errors |-> "absent"]

FailResps ==
    {[transport |-> TRUE, status_code |-> 0, errors |-> "absent"],
     [transport |-> FALSE, status_code |-> 500, errors |-> "absent"],
     [transport |-> FALSE, status_code |-> 200, errors |-> "nonempty"],
     [transport |-> FALSE, status_code |-> 200, errors |-> "empty"]}

\* Years datetime.now() may fall in.
Years == {2025, 2026}

\* ------------------------------------------------------------------ state
VARIABLES
    request,        \* the inbound POST
    MONDAY_API_KEY, \* whether the credential is configured (line 14)
    pc,             \* where the handler is
    calls,          \* remote calls sent so far, in order, with their outcome
    last_resp,      \* the HTTP answer execute_monday_query handled last
    exc,            \* the exception in flight / handled last
    response,       \* what the endpoint answers
    sync_exit,      \* how sync_subitem_with_parent ended
    result,         \* process_date_automation: answer of the parent query
    idx,            \* process_date_automation: position of the for loop
    parent_result,  \* sync_subitem_with_parent: answer of GetParentItem
    subitem_result  \* sync_subitem_with_parent: answer of GetSubItem

vars == <<request, MONDAY_API_KEY, pc, calls, last_resp, exc, response,
          sync_exit, result, idx, parent_result, subitem_result>>

NoExc == [type |-> "none", status_code |-> 0]
NoResponse == [http |-> 0, kind |-> "none", body |-> NoBody]

webhook_data == request.body
event == webhook_data.event


\* ------------------------------------------------------ remote API client
HTTPException(code) == [type |-> "HTTPException", status_code |-> code]
AttributeError == [type |-> "AttributeError", status_code |-> 0]

\* execute_monday_query up to the request being sent: without a credential
\* it raises before anything is sent.
KeyCheckRaises == ~MONDAY_API_KEY

\* execute_monday_query from the answer on: what it raises, if anything.
execute_monday_query(resp) ==
    IF resp.transport
    THEN [raised |-> TRUE, exc |-> HTTPException(500)]
    ELSE IF resp.status_code # 200
    THEN [raised |-> TRUE, exc |-> HTTPException(resp.status_code)]
    ELSE IF resp.errors # "absent"
    THEN [raised |-> TRUE, exc |-> HTTPException(400)]
    ELSE [raised |-> FALSE, exc |-> NoExc]

Call(op, boardId, itemId, columnId, value) ==
    [op |-> op, boardId |-> boardId, itemId |-> itemId, columnId |-> columnId,
     value |-> value, outcome |-> "pending"]

Send(c) == calls' = Append(calls, c)

\* The call in flight gets its outcome.
Settle(outcome) == calls' = [calls EXCEPT ![Len(calls)].outcome = outcome]

\* ----------------------------------------------------------- json parsing
\* request.json(), and json.loads(raw_body.decode('utf-8')) on the same bytes.
JsonLoads(req) ==
    IF req.wellFormed THEN [ok |-> TRUE, value |-> req.body]
    ELSE [ok |-> FALSE, value |-> NoBody]

\* `except Exception`: HTTPException derives from Exception, as every
\* exception raised here does.
ExceptException(e) == e.type \in {"HTTPException", "AttributeError"}

\* The five try statements that catch with `except Exception`.
WebhookCatchesButHTTPException(e) == e.type = "AttributeError"
WebhookCatches(e) == ExceptException(e)
PdaCatches(e) == ExceptException(e)
PdaLoopRethrows(e) == FALSE
PdaLoopCatches(e) == ExceptException(e)
SyncCatches(e) == ExceptException(e)
SyncMutationCatches(e) == ExceptException(e)

\* -------------------------------------------------------- monday_webhook
UnchangedLocals ==
    UNCHANGED <<result, idx, parent_result, subitem_result>>

\* Lines 111-127: read the body, parse it, on failure parse it again from the
\* decoded bytes, and raise HTTPException(400) when that fails too.
ParseBody ==
    /\ pc = "start"
    /\ LET first == JsonLoads(request)
           second == JsonLoads(request)
       IN IF first.ok \/ second.ok
          THEN pc' = "parsed" /\ exc' = exc
          ELSE pc' = "raised" /\ exc' = HTTPException(400)
    /\ UNCHANGED <<request, MONDAY_API_KEY, calls, last_resp, response, sync_exit>>
    /\ UnchangedLocals

\* Lines 130-158: event type, challenge echo, dispatch.
Dispatch ==
    /\ pc = "parsed"
    /\ LET body == JsonLoads(request).value
           event_type == body.event.type
       IN IF body.json # "dict" \/ body.event.shape = "notdict"
          THEN \* body.get / event.get on something that is no dict
               /\ pc' = "raised"
               /\ exc' = AttributeError
               /\ response' = response
          ELSE IF body.challenge # None
          THEN /\ pc' = "done"
               /\ response' = [http |-> 200, kind |-> "echo", body |-> body]
               /\ exc' = exc
          ELSE IF event_type \in {"create_pulse", "update_column_value"}
          THEN /\ pc' = IF Truthy(body.event.parentItemId)
                        THEN "sync_entry" ELSE "pda_entry"
               /\ UNCHANGED <<response, exc>>
          ELSE /\ pc' = "returned"
               /\ UNCHANGED <<response, exc>>
    /\ UNCHANGED <<request, MONDAY_API_KEY, calls, last_resp, sync_exit>>
    /\ UnchangedLocals

\* Line 158: the sync function came back (or nothing was to do).
ReturnSuccess ==
    /\ pc = "returned"
    /\ pc' = "done"
    /\ response' = [http |-> 200, kind |-> "success", body |-> NoBody]
    /\ UNCHANGED <<request, MONDAY_API_KEY, calls, last_resp, exc, sync_exit>>
    /\ UnchangedLocals

\* Lines 159-171: the catch-all of the handler.  An exception it does not
\* catch leaves the handler, and the framework answers with the exception's
\* status code (500 for anything that is no HTTPException).
HandleException ==
    /\ pc = "raised"
    /\ pc' = "done"
    /\ response' =
         IF WebhookCatches(exc)
         THEN [http |-> 200, kind |-> "error", body |-> NoBody]
         ELSE [http |-> IF exc.type = "HTTPException" THEN exc.status_code ELSE 500,
               kind |-> "escaped", body |-> NoBody]
    /\ UNCHANGED <<request, MONDAY_API_KEY, calls, last_resp, exc, sync_exit>>
    /\ UnchangedLocals


\* ------------------------------------------------ process_date_automation
\* Lines 214-234, read off the answer of the parent query.
date_column_found == result.found /\ Len(result.column_values) > 0
date_value == IF date_column_found THEN result.column_values[1].value ELSE None
subitems == result.subitems

\* Line 229: `not date_value or date_value == "null"`.
NoDateValueNullOnly(v) == v = None
NoDateValue(v) == ~Truthy(v) \/ v = "null"

\* Lines 251-263: the variables of the mutation for one subitem.
PdaVariablesEventBoard(subitem) ==
    Call("change_column_value", event.boardId, subitem.id,
         SUBITEM_DATE_COLUMN_ID, date_value)
PdaVariables(subitem) ==
    Call("change_column_value", subitem.board_id, subitem.id,
         SUBITEM_DATE_COLUMN_ID, date_value)

\* An exception inside the try of lines 205-272.
PdaRaise(e) ==
    /\ exc' = e
    /\ pc' = IF PdaCatches(e) THEN "returned" ELSE "raised"

\* Lines 178-207: the item id, and the parent query is sent.
PdaEntry ==
    /\ pc = "pda_entry"
    /\ LET item_id == Or(Or(event.pulseId, event.pulse_id), event.itemId)
       IN IF ~Truthy(item_id)
          THEN pc' = "returned" /\ UNCHANGED <<calls, exc>>
          ELSE IF KeyCheckRaises
          THEN PdaRaise(HTTPException(500)) /\ UNCHANGED calls
          ELSE /\ Send(Call("items", None, item_id, None, None))
               /\ pc' = "pda_await_query"
               /\ exc' = exc
    /\ UNCHANGED <<request, MONDAY_API_KEY, last_resp, response, sync_exit>>
    /\ UnchangedLocals

\* Lines 207-248: the parent query is answered; the date value and the
\* subitems are read from it.
PdaQueryAnswer ==
    /\ pc = "pda_await_query"
    /\ \E resp \in FailResps \cup {OkResp} :
         LET r == execute_monday_query(resp)
         IN /\ last_resp' = resp
            /\ IF r.raised
               THEN /\ Settle("raised")
                    /\ PdaRaise(r.exc)
                    /\ UNCHANGED <<result, idx>>
               ELSE \E res \in ParentWithSubitemsResults :
                      /\ Settle("ok")
                      /\ result' = res
                      /\ IF res.data = "null"
                         THEN PdaRaise(AttributeError) /\ idx' = idx
                         ELSE /\ exc' = exc
                              /\ IF \/ ~res.found
                                    \/ Len(res.column_values) = 0
                                    \/ NoDateValue(res.column_values[1].value)
                                    \/ Len(res.subitems) = 0
                                 THEN pc' = "returned" /\ idx' = idx
                                 ELSE pc' = "pda_loop" /\ idx' = 1
    /\ UNCHANGED <<request, MONDAY_API_KEY, response, sync_exit,
                   parent_result, subitem_result>>

\* Lines 250-266: one turn of the for loop, up to the mutation being sent.
PdaLoopStep ==
    /\ pc = "pda_loop"
    /\ IF idx > Len(subitems)
       THEN pc' = "returned" /\ UNCHANGED <<calls, exc, idx>>
       ELSE LET subitem == subitems[idx]
                subitem_id == subitem.id
                subitem_board_id == subitem.board_id
            IN IF subitem.board = "null"
               THEN \* None.get("id"), outside the try of line 265
                    PdaRaise(AttributeError) /\ UNCHANGED <<calls, idx>>
               ELSE IF ~Truthy(subitem_id) \/ ~Truthy(subitem_board_id)
               THEN idx' = idx + 1 /\ UNCHANGED <<pc, calls, exc>>
               ELSE IF KeyCheckRaises
               THEN /\ exc' = HTTPException(500)
                    /\ IF PdaLoopCatches(HTTPException(500))
                       THEN idx' = idx + 1 /\ pc' = pc
                       ELSE idx' = idx /\ pc' = IF PdaCatches(HTTPException(500))
                                                THEN "returned" ELSE "raised"
                    /\ UNCHANGED calls
               ELSE /\ Send(PdaVariables(subitem))
                    /\ pc' = "pda_await_mutation"
                    /\ UNCHANGED <<exc, idx>>
    /\ UNCHANGED <<request, MONDAY_API_KEY, last_resp, response, sync_exit,
                   result, parent_result, subitem_result>>

\* Lines 266-269: the mutation is answered; a failure is printed and the loop
\* goes on.
PdaMutationAnswer ==
    /\ pc = "pda_await_mutation"
    /\ \E resp \in FailResps \cup {OkResp} :
         LET r == execute_monday_query(resp)
         IN /\ last_resp' = resp
            /\ IF r.raised
               THEN /\ Settle("raised")
                    /\ exc' = r.exc
                    /\ IF PdaLoopCatches(r.exc)
                       THEN idx' = idx + 1 /\ pc' = "pda_loop"
                       ELSE idx' = idx /\ pc' = IF PdaCatches(r.exc)
                                                THEN "returned" ELSE "raised"
               ELSE /\ Settle("ok")
                    /\ idx' = idx + 1
                    /\ pc' = "pda_loop"
                    /\ exc' = exc
    /\ UNCHANGED <<request, MONDAY_API_KEY, response, sync_exit,
                   result, parent_result, subitem_result>>


\* ------------------------------------------------ sync_subitem_with_parent
\* next((col for col in column_values if col.get("id") == id), None)
RECURSIVE NextById(_, _)
NextById(cols, id) ==
    IF cols = <<>> THEN NoCol
    ELSE IF Head(cols).id = id THEN Head(cols)
    ELSE NextById(Tail(cols), id)

\* next((col for col in column_values if col.get("type") == "date"), None)
RECURSIVE NextByType(_, _)
NextByType(cols, type) ==
    IF cols = <<>> THEN NoCol
    ELSE IF Head(cols).type = type THEN Head(cols)
    ELSE NextByType(Tail(cols), type)

\* Lines 352-358 and 378-384: by the known id, else any date column.
FindDateColByIdOnly(cols, id) == NextById(cols, id)
FindDateCol(cols, id) ==
    IF NextById(cols, id) # NoCol THEN NextById(cols, id)
    ELSE NextByType(cols, "date")

\* datetime(year, 3, 11).strftime("%Y-%m-%d")
March11(year) == ToString(year) \o "-03-11"

\* json.dumps({"date": d})
JsonDumpsDate(d) == "{\"date\": \"" \o d \o "\"}"

\* Lines 393-413: the value the mutation carries, `year` being the current
\* year.
ParentValueReformatted(col, year) ==
    IF ~Truthy(col.value) \/ col.value = "null"
    THEN JsonDumpsDate(March11(year))
    ELSE IF col.value = RawA THEN JsonDumpsDate("2024-05-01")
    ELSE IF col.value = RawB THEN JsonDumpsDate("2023-12-24")
    ELSE col.value
ParentValue(col, year) ==
    IF ~Truthy(col.value) \/ col.value = "null"
    THEN JsonDumpsDate(March11(year))
    ELSE col.value

\* Line 292: all([subitem_id, subitem_board_id, parent_item_id, parent_board_id])
AllRequiredIdsButParentBoard(subitem_id, subitem_board_id, parent_item_id, parent_board_id) ==
    Truthy(subitem_id) /\ Truthy(subitem_board_id) /\ Truthy(parent_item_id)
AllRequiredIds(subitem_id, subitem_board_id, parent_item_id, parent_board_id) ==
    /\ Truthy(subitem_id)
    /\ Truthy(subitem_board_id)
    /\ Truthy(parent_item_id)
    /\ Truthy(parent_board_id)

\* An exception that leaves sync_subitem_with_parent.
SyncRaiseToCaller(e) ==
    /\ exc' = e
    /\ sync_exit' = "raised"
    /\ pc' = "raised"

SyncReturn ==
    /\ sync_exit' = "returned"
    /\ pc' = "returned"

\* An exception inside the try of lines 338-443.
SyncRaiseInTry(e) ==
    /\ exc' = e
    /\ IF SyncCatches(e) THEN SyncReturn
       ELSE sync_exit' = "raised" /\ pc' = "raised"

\* Lines 282-315: the four ids, and the parent query is sent.
SyncEntry ==
    /\ pc = "sync_entry"
    /\ LET subitem_id == Or(event.itemId, event.pulseId)
           subitem_board_id == event.boardId
           parent_item_id == event.parentItemId
           parent_board_id == event.parentItemBoardId
       IN IF ~AllRequiredIds(subitem_id, subitem_board_id,
                             parent_item_id, parent_board_id)
          THEN SyncReturn /\ UNCHANGED <<calls, exc>>
          ELSE IF KeyCheckRaises
          THEN SyncRaiseToCaller(HTTPException(500)) /\ UNCHANGED calls
          ELSE /\ Send(Call("GetParentItem", None, parent_item_id, None, None))
               /\ pc' = "sync_await_parent"
               /\ UNCHANGED <<exc, sync_exit>>
    /\ UNCHANGED <<request, MONDAY_API_KEY, last_resp, response>>
    /\ UnchangedLocals

\* Lines 315-336: the parent query is answered and the subitem query is sent.
SyncParentAnswer ==
    /\ pc = "sync_await_parent"
    /\ \E resp \in FailResps \cup {OkResp} :
         LET r == execute_monday_query(resp)
             subitem_id == Or(event.itemId, event.pulseId)
         IN /\ last_resp' = resp
            /\ IF r.raised
               THEN /\ Settle("raised")
                    /\ SyncRaiseToCaller(r.exc)
                    /\ UNCHANGED parent_result
               ELSE \E res \in ItemResults(ParentCols) :
                      /\ parent_result' = res
                      /\ IF KeyCheckRaises
                         THEN Settle("ok") /\ SyncRaiseToCaller(HTTPException(500))
                         ELSE /\ calls' = Append(
                                     [calls EXCEPT ![Len(calls)].outcome = "ok"],
                                     Call("GetSubItem", None, subitem_id, None, None))
                              /\ pc' = "sync_await_subitem"
                              /\ UNCHANGED <<exc, sync_exit>>
    /\ UNCHANGED <<request, MONDAY_API_KEY, response, result, idx, subitem_result>>

\* Lines 336-434: the subitem query is answered, both date columns are
\* located, and the mutation is sent.
SyncSubitemAnswer ==
    /\ pc = "sync_await_subitem"
    /\ \E resp \in FailResps \cup {OkResp} :
         LET r == execute_monday_query(resp)
             subitem_id == Or(event.itemId, event.pulseId)
             subitem_board_id == event.boardId
         IN /\ last_resp' = resp
            /\ IF r.raised
               THEN /\ Settle("raised")
                    /\ SyncRaiseToCaller(r.exc)
                    /\ UNCHANGED subitem_result
               ELSE \E res \in ItemResults(SubitemCols), year \in Years :
                      LET settled == [calls EXCEPT ![Len(calls)].outcome = "ok"]
                          parent_date_col ==
                              FindDateCol(parent_result.column_values,
                                          PARENT_DATE_COLUMN_ID)
                          subitem_date_col ==
                              FindDateCol(res.column_values, SUBITEM_DATE_COLUMN_ID)
                          parent_value == ParentValue(parent_date_col, year)
                      IN /\ subitem_result' = res
                         /\ IF parent_result.data = "null"
                            THEN SyncRaiseInTry(AttributeError) /\ calls' = settled
                            ELSE IF ~parent_result.found \/ parent_date_col = NoCol
                            THEN SyncReturn /\ calls' = settled /\ exc' = exc
                            ELSE IF res.data = "null"
                            THEN SyncRaiseInTry(AttributeError) /\ calls' = settled
                            ELSE IF ~res.found \/ subitem_date_col = NoCol
                            THEN SyncReturn /\ calls' = settled /\ exc' = exc
                            ELSE IF ~Truthy(parent_value)
                            THEN SyncReturn /\ calls' = settled /\ exc' = exc
                            ELSE IF KeyCheckRaises
                            THEN /\ calls' = settled
                                 /\ exc' = HTTPException(500)
                                 /\ IF SyncMutationCatches(HTTPException(500))
                                    THEN SyncReturn
                                    ELSE SyncRaiseInTry(HTTPException(500))
                            ELSE /\ calls' = Append(settled,
                                       Call("UpdateSubitemDate", subitem_board_id,
                                            subitem_id, subitem_date_col.id,
                                            parent_value))
                                 /\ pc' = "sync_await_mutation"
                                 /\ UNCHANGED <<exc, sync_exit>>
    /\ UNCHANGED <<request, MONDAY_API_KEY, response, result, idx, parent_result>>

\* Lines 434-443: the mutation is answered; a failure is printed.
SyncMutationAnswer ==
    /\ pc = "sync_await_mutation"
    /\ \E resp \in FailResps \cup {OkResp} :
         LET r == execute_monday_query(resp)
         IN /\ last_resp' = resp
            /\ IF r.raised
               THEN /\ Settle("raised")
                    /\ IF SyncMutationCatches(r.exc)
                       THEN exc' = r.exc /\ SyncReturn
                       ELSE SyncRaiseInTry(r.exc)
               ELSE Settle("ok") /\ SyncReturn /\ exc' = exc
    /\ UNCHANGED <<request, MONDAY_API_KEY, response>>
    /\ UnchangedLocals

\* ------------------------------------------------------- specifications
InitLocals ==
    /\ calls = <<>>
    /\ last_resp = NoResp
    /\ exc = NoExc
    /\ response = NoResponse
    /\ sync_exit = "none"
    /\ result = NoParentResult
    /\ idx = 0
    /\ parent_result = NoItemResult
    /\ subitem_result = NoItemResult

\* A POST to / or /webhook arrives (root_webhook hands over to
\* monday_webhook).
Init ==
    /\ request \in Requests
    /\ MONDAY_API_KEY \in BOOLEAN
    /\ pc = "start"
    /\ InitLocals

Next ==
    \/ ParseBody
    \/ Dispatch
    \/ ReturnSuccess
    \/ HandleException
    \/ PdaEntry
    \/ PdaQueryAnswer
    \/ PdaLoopStep
    \/ PdaMutationAnswer
    \/ SyncEntry
    \/ SyncParentAnswer
    \/ SyncSubitemAnswer
    \/ SyncMutationAnswer

Spec == Init /\ [][Next]_vars

\* sync_subitem_with_parent called on its own with any webhook_data whose
\* "event" is an object or is missing.
InitSync ==
    /\ request \in {r \in Requests :
                      /\ r.wellFormed
                      /\ r.body.json = "dict"
                      /\ r.body.challenge = None
                      /\ r.body.event.shape # "notdict"}
    /\ MONDAY_API_KEY \in BOOLEAN
    /\ pc = "sync_entry"
    /\ InitLocals

NextSync ==
    \/ SyncEntry
    \/ SyncParentAnswer
    \/ SyncSubitemAnswer
    \/ SyncMutationAnswer

SpecSync == InitSync /\ [][NextSync]_vars


\* ------------------------------------------------------------ properties
IsMutation(c) == c.op \in {"change_column_value", "UpdateSubitemDate"}
Mutations == SelectSeq(calls, IsMutation)

Done == pc = "done"

\* The payload is an object without "challenge" whose event is of one of the
\* two handled types.
HandledEvent ==
    /\ request.wellFormed
    /\ request.body.json = "dict"
    /\ request.body.challenge = None
    /\ request.body.event.shape = "dict"
    /\ request.body.event.type \in {"create_pulse", "update_column_value"}

\* ... and carries no parent-item id: the parent-update path.
ParentUpdateEvent ==
    HandledEvent /\ request.body.event.parentItemId \in {None, ""}

\* ... and carries one: the subitem-creation path.
SubitemCreationEvent ==
    HandledEvent /\ request.body.event.parentItemId \notin {None, ""}

\* The parent query was answered with a parent item.
ParentFetched == result.found

\* The raw value of the fetched parent's date column ("" when there is none).
FetchedDate ==
    IF Len(result.column_values) = 0 THEN None ELSE result.column_values[1].value

HasDate == FetchedDate \notin {None, "", "null"}

\* C1 as stated: every payload with a "challenge" key is answered with the
\* payload itself, and no remote call is made.
C1_ChallengeEchoed ==
    (Done /\ request.wellFormed /\ request.body.json = "dict"
          /\ request.body.challenge # None)
    => /\ response.kind = "echo"
       /\ response.body = request.body
       /\ calls = <<>>

\* C3 as stated: malformed JSON is answered with HTTP 400, everything else
\* with HTTP 200 and a status object.
C3_MalformedIs400 ==
    Done => IF request.wellFormed
            THEN response.http = 200
            ELSE response.http = 400

\* C4 as stated: sync_subitem_with_parent never raises to its caller,
\* whichever remote call failed.
C4_SyncNeverRaises ==
    (\E i \in 1..Len(calls) : calls[i].outcome = "raised") => sync_exit # "raised"

\* A remote answer with a non-200 status or a non-empty errors array.
UpstreamFailure(resp) ==
    /\ ~resp.transport
    /\ \/ resp.status_code \notin {0, 200}
       \/ resp.status_code = 200 /\ resp.errors = "nonempty"

Settled == {i \in 1..Len(calls) : calls[i].outcome # "pending"}

\* C5: a remote answer with a non-200 status or a non-empty errors array
\* makes execute_monday_query raise, and on every path the webhook still
\* answers (HTTP 200 with a status object): the exception never leaves
\* monday_webhook.
C5_UpstreamFailureCaught ==
    /\ UpstreamFailure(last_resp) =>
         /\ Settled # {}
         /\ \A i \in Settled :
              (\A j \in Settled : j <= i) => calls[i].outcome = "raised"
    /\ (Done /\ \E i \in 1..Len(calls) : calls[i].outcome = "raised") =>
         /\ response.http = 200
         /\ response.kind \in {"success", "error"}

C5_Witness ==
    /\ Done
    /\ SubitemCreationEvent
    /\ Len(calls) = 2
    /\ calls[2].outcome = "raised"
    /\ last_resp.status_code = 500
    /\ response.kind = "error"

\* C6: on the parent-update path, a parent whose date column is missing or
\* whose value is null, empty or the string "null" gets no mutation: the one
\* read query is the only call, however many subitems there are.
C6_NoDateNoMutation ==
    (ParentUpdateEvent /\ ParentFetched /\ ~HasDate)
    => /\ Mutations = <<>>
       /\ Len(calls) = 1
       /\ calls[1].op = "items"

C6_Witness ==
    /\ Done
    /\ ParentUpdateEvent
    /\ ParentFetched
    /\ FetchedDate = "null"
    /\ Len(result.subitems) = MaxSubitems
    /\ Len(calls) = 1

\* The subitems the loop gets to: those before the first entry whose board is
\* null.
NullBoards(subs) == {i \in 1..Len(subs) : subs[i].board = "null"}
Reached(subs) ==
    IF NullBoards(subs) = {} THEN subs
    ELSE SubSeq(subs, 1, (CHOOSE i \in NullBoards(subs) :
                            \A j \in NullBoards(subs) : i <= j) - 1)
HasBothIds(sub) == sub.id \notin {None, ""} /\ sub.board_id \notin {None, ""}
Updatable(subs) == SelectSeq(Reached(subs), HasBothIds)

FourIds ==
    /\ \/ request.body.event.itemId \notin {None, ""}
       \/ request.body.event.pulseId \notin {None, ""}
    /\ request.body.event.boardId \notin {None, ""}
    /\ request.body.event.parentItemId \notin {None, ""}
    /\ request.body.event.parentItemBoardId \notin {None, ""}

\* C7: when one of the four identifiers is missing, sync_subitem_with_parent
\* makes no remote call and returns normally.
C7_MissingIdNoCall ==
    (~FourIds /\ pc # "sync_entry")
    => /\ calls = <<>>
       /\ sync_exit = "returned"
       /\ exc = NoExc

C7_Witness ==
    /\ sync_exit = "returned"
    /\ calls = <<>>
    /\ MONDAY_API_KEY
    /\ request.body.event.itemId # None
    /\ request.body.event.boardId # None
    /\ request.body.event.parentItemId # None
    /\ request.body.event.parentItemBoardId = None

\* The column a lookup by fixed id, else by type "date", is to find.
WithId(cols, id) == {i \in 1..Len(cols) : cols[i].id = id}
OfTypeDate(cols) == {i \in 1..Len(cols) : cols[i].type = "date"}
Least(S) == CHOOSE i \in S : \A j \in S : i <= j
HasDateCol(cols, id) == WithId(cols, id) # {} \/ OfTypeDate(cols) # {}
Located(cols, id) ==
    IF WithId(cols, id) # {} THEN cols[Least(WithId(cols, id))]
    ELSE cols[Least(OfTypeDate(cols))]

SyncMutations == {i \in 1..Len(calls) : calls[i].op = "UpdateSubitemDate"}

\* C8: the one mutation of the subitem-creation path goes to the event's
\* subitem id and board id and to the located subitem date column, and
\* carries the raw value of the parent's located date column unchanged; only
\* if that value is null, empty or "null" does it carry March 11 of the
\* current year.
C8_RawValueCopied ==
    /\ Cardinality(SyncMutations) <= 1
    /\ \A i \in SyncMutations :
         LET parent_col == Located(parent_result.column_values, "date7")
             subitem_col == Located(subitem_result.column_values, "date_mkn2am1b")
         IN /\ calls[i].itemId = IF request.body.event.itemId \notin {None, ""}
                                 THEN request.body.event.itemId
                                 ELSE request.body.event.pulseId
            /\ calls[i].boardId = request.body.event.boardId
            /\ calls[i].columnId = subitem_col.id
            /\ IF parent_col.value \notin {None, "", "null"}
               THEN calls[i].value = parent_col.value
               ELSE calls[i].value \in {"{\"date\": \"2025-03-11\"}",
                                        "{\"date\": \"2026-03-11\"}"}

C8_Witness ==
    /\ Done
    /\ SubitemCreationEvent
    /\ \E i \in SyncMutations :
         /\ calls[i].value = RawA
         /\ calls[i].outcome = "ok"
         /\ calls[i].itemId = "p1"

\* The subitem query was answered.
BothAnswered == Len(calls) >= 2 /\ calls[2].op = "GetSubItem" /\ calls[2].outcome = "ok"

\* C9: both date columns are located by their fixed id, else as the first
\* column of type "date"; when the parent or the subitem has no such column,
\* the two read queries are the only calls; when both items are there and
\* both have one, the one mutation goes to the subitem column so located.
C9_LocatedOrNoMutation ==
    BothAnswered =>
      IF /\ HasDateCol(parent_result.column_values, "date7")
         /\ HasDateCol(subitem_result.column_values, "date_mkn2am1b")
      THEN /\ Cardinality(SyncMutations) = 1
           /\ \A i \in SyncMutations :
                calls[i].columnId =
                  IF WithId(subitem_result.column_values, "date_mkn2am1b") # {}
                  THEN "date_mkn2am1b"
                  ELSE subitem_result.column_values[
                         Least(OfTypeDate(subitem_result.column_values))].id
      ELSE /\ SyncMutations = {}
           /\ Len(calls) = 2
           /\ sync_exit = "returned"

C9_Witness ==
    /\ Done
    /\ SubitemCreationEvent
    /\ BothAnswered
    /\ Len(parent_result.column_values) > 0
    /\ ~HasDateCol(parent_result.column_values, "date7")
    /\ HasDateCol(subitem_result.column_values, "date_mkn2am1b")
    /\ Len(calls) = 2

====
